---- MODULE Spec2Model ----
(***************************************************************************)
(* Trawler: a supervisor that spawns one child app, watches its output,    *)
(* and restarts it or quits when it closes.  The model follows the class   *)
(* Trawler of src/notifications/Notification.js (lines 162-593).           *)
(*                                                                         *)
(* One action is one turn of the Node event loop: a handler runs to its    *)
(* end, and the callbacks it leaves behind (a stream write, a notification *)
(* send, a timer, the next task of async.waterfall) are later turns.       *)
(* process.exit and an uncaught exception end the process: every action    *)
(* is guarded by exitStatus = <<>>.                                        *)
(*                                                                         *)
(* Every outputLog call writes one line to internalStream.  Only the quit  *)
(* message's write has a callback that does something; the crash message's *)
(* write is tracked as well, to tell when it completes.  The writes of the *)
(* other entries complete unobserved and are not kept in the state.        *)
(***************************************************************************)
EXTENDS Integers, Sequences, FiniteSets, TLC

VARIABLES
  restartOnCrash,        \* config.trawler.restartOnCrash: "null", "false" or "true"
  maxRestarts,           \* config.trawler.maxRestarts
  notifications,         \* config.trawler.notifications, the registered channels in order
  numRestarts,           \* this.numRestarts
  childApp,              \* this.childApp: <<>> is null, <<pid>> a child handle
  childAppStartTime,     \* this.childAppStartTime: <<>> is null, <<t>> a time
  childAppStderrBuffer,  \* this.childAppStderrBuffer: sequence of [time, message]
  now,                   \* the last value read from the clock (moment.utc()), in milliseconds
  liveChildren,          \* pids of the spawned children that have not exited
  sigterm,               \* pids that childApp.kill() was called on
  phase,                 \* position of init and of the crash pipeline
  newNumRestarts,        \* onAppCrash: const newNumRestarts
  tooManyRestarts,       \* waterfall value tooManyRestarts
  restartAction,         \* waterfall value restartAction
  notificationType,      \* notifyExternally: let notificationType
  alert,                 \* the options object handed to sendNotifications
  sendState,             \* per channel: "idle", "inflight", "ok" or "err"
  sendLog,               \* channels whose send was invoked by the last dispatch, in call order
  pendingWrites,         \* internalStream writes of the crash and quit messages whose
                         \* callback has not fired, oldest first
  quitWriteErr,          \* "none", or the outcome ("ok" or "err") of the quit message's write
  consoleLog,            \* messages handed to the Logger, in order
  exitTimer,             \* <<>> or <<deadline>> of setTimeout(process.exit.bind(null, 1), 1000)
  exitStatus,            \* <<>> while the supervisor runs, <<code>> once the process has ended
  uncaught,              \* TRUE once an error was thrown out of a callback
  initErr,               \* TRUE once init called finish(err) with an error
  numSpawns,             \* number of spawn() calls so far
  numExits,              \* number of 'close' events handled so far
  numStderr,             \* number of 'data' events of the child's stderr handled so far
  initWhat,              \* init: the what argument of the initSomething under way or last run
  initItems,             \* init: per item of that initSomething, "inflight", "ok" or "err"
  crashWriteErr,         \* "err" when the write of the crash message has failed and the
                         \* alert of that crash is not dispatched yet, else "none"
  stderrSinceSpawn,      \* TRUE once the child spawned last has written to its stderr
  sendText,              \* the texts handed to doSend by the last dispatch, in call order
  thrownErr              \* <<>>, or <<c>>: the error of channel c was thrown

vars == <<restartOnCrash, maxRestarts, notifications, numRestarts, childApp,
          childAppStartTime, childAppStderrBuffer, now, liveChildren, sigterm,
          phase, newNumRestarts, tooManyRestarts, restartAction,
          notificationType, alert, sendState, sendLog, pendingWrites,
          quitWriteErr,
          consoleLog, exitTimer, exitStatus, uncaught, initErr, numSpawns,
          numExits, numStderr, initWhat, initItems, crashWriteErr,
          stderrSinceSpawn, sendText, thrownErr>>

(***************************************************************************)
(* Bounds of the model.                                                    *)
(***************************************************************************)
MaxLimit == 3      \* maxRestarts ranges over 0..MaxLimit
MaxChannels == 3   \* 0..MaxChannels registered notification channels
MaxCrashes == 3    \* child 'close' events per run
MaxStderr == 3     \* chunks of child stderr per run
MaxTime == 60      \* the last time at which a chunk of child stderr arrives
MaxStreams == 2    \* 0..MaxStreams configured streams
MaxStores == 6     \* calls of storeChildStderr on a buffer of threshold 0

\* Time that passes between two reads of the clock.
Delays == {0, 10, 50}
\* The text of the k-th chunk of child stderr (the buffer never looks at it).
Chunks == <<"a", "b", "c", "d", "e">>
Chunk(k) == Chunks[((k - 1) % Len(Chunks)) + 1]
RestartOnCrashValues == {"null", "false", "true"}

(***************************************************************************)
(* Program constants.                                                      *)
(***************************************************************************)
childAppStderrThreshold == 50
GraceDelay == 1000

(***************************************************************************)
(* Pure helpers.                                                           *)
(***************************************************************************)
\* JavaScript truthiness of the restartOnCrash config value.
Truthy(v) == v = "true"

Digits == <<"0", "1", "2", "3", "4", "5", "6", "7", "8", "9">>

RECURSIVE IntToStr(_)
\* Number to string conversion done by `+` with a string operand.
IntToStr(n) ==
  IF n < 10 THEN Digits[n + 1]
  ELSE IntToStr(n \div 10) \o Digits[(n % 10) + 1]

\* checkMaxRestarts with the limit test > in place of >=.
checkMaxRestarts_strictLimit(roc, max, newNum) ==
  LET tooMany == (max > 0 /\ newNum > max)
  IN [tooManyRestarts |-> tooMany,
      restartAction |-> IF Truthy(roc) /\ ~tooMany THEN "restart" ELSE "quit"]

\* checkMaxRestarts that forgets the restartOnCrash flag.
checkMaxRestarts_ignoreFlag(roc, max, newNum) ==
  LET tooMany == (max > 0 /\ newNum >= max)
  IN [tooManyRestarts |-> tooMany,
      restartAction |-> IF ~tooMany THEN "restart" ELSE "quit"]

\* The two values computed by the waterfall task checkMaxRestarts.
checkMaxRestarts(roc, max, newNum) ==
  LET tooMany == (max > 0 /\ newNum >= max)
  IN [tooManyRestarts |-> tooMany,
      restartAction |-> IF Truthy(roc) /\ ~tooMany THEN "restart" ELSE "quit"]

\* The chain with the limit tested before the flag.
chooseNotificationType_limitFirst(roc, tooMany) ==
  IF tooMany THEN "app-restart-limit"
  ELSE IF ~Truthy(roc) THEN "app-no-restart"
  ELSE "app-crash"

\* The if/else chain at the top of notifyExternally.
chooseNotificationType(roc, tooMany) ==
  IF ~Truthy(roc) THEN "app-no-restart"
  ELSE IF tooMany THEN "app-restart-limit"
  ELSE "app-crash"

\* The numRestarts property of the options built by notifyExternally.
formatNumRestarts(roc, max, newNum) ==
  IntToStr(newNum) \o (IF Truthy(roc) /\ max > 0 THEN "/" \o IntToStr(max) ELSE "")

(***************************************************************************)
(* NotificationBase.send.  A JavaScript value that may be null is <<>> for *)
(* null and <<v>> for the value v.  The texts are those of the source      *)
(* without the back quotes of its markup; the fence of the stack trace is  *)
(* written [[ ]].                                                          *)
(***************************************************************************)
\* The operator + of a string and a value that may be null.
toStr(v) == IF v = <<>> THEN "null" ELSE v[1]
\* (v || 0) rendered into a string.
OrZero(v) == IF v = <<>> \/ v[1] = "" THEN "0" ELSE v[1]
\* The value of key k of the object o: null when o has no such key.
Field(o, k) == IF k \in DOMAIN o THEN <<o[k]>> ELSE <<>>

\* extender.defaults of send: the keys send reads, each null unless
\* _options sets it.
sendDefaults(o) ==
  [notificationType |-> Field(o, "notificationType"),
   message |-> Field(o, "message"),
   numCrashRestarts |-> Field(o, "numCrashRestarts"),
   childAppStderrBuffer |-> Field(o, "childAppStderrBuffer"),
   childAppStartTime |-> IF "childAppStartTime" \in DOMAIN o
                         THEN o.childAppStartTime ELSE <<>>]

\* The switch of send: message and stack trace by notification type.  The
\* 'trawler-crash' and 'trawler-error' cases read options.trawlerErr, which
\* no dispatch of the Trawler class sets; they are left to the default.
sendSwitch(options) ==
  LET type == options.notificationType
  IN IF type = <<"app-first-boot">>
     THEN [message |-> "The app has successfully booted!", stackTrace |-> <<>>]
     ELSE IF type = <<"app-no-restarts">>
     THEN [message |-> "The app is not allowed to crash because \"restartOnCrash\" is not set to true.",
           stackTrace |-> <<>>]
     ELSE IF type = <<"app-restart-limit">>
     THEN [message |-> "The app has crashed too many times and cannot be restarted again (maxCrashRestarts property limits to max. "
                         \o toStr(options.numCrashRestarts) \o " restart(s)).",
           stackTrace |-> options.childAppStderrBuffer]
     ELSE IF type = <<"app-crash">>
     THEN [message |-> "The app has crashed *" \o toStr(options.numCrashRestarts)
                         \o " time(s)*!",
           stackTrace |-> options.childAppStderrBuffer]
     ELSE [message |-> "Something unexpected happened",  \* the first words of the default message
           stackTrace |-> <<>>]

\* The lines of the text send hands to doSend that depend on the options.
send(_options) ==
  LET options == sendDefaults(_options)
      sw == sendSwitch(options)
      message == IF options.message # <<>> /\ options.message[1] # ""
                 THEN options.message[1] ELSE sw.message
  IN [bootTime |-> IF options.childAppStartTime # <<>> THEN "Boot Time: running"
                   ELSE "Boot Time: Not running",
      restarts |-> "Restarts: " \o OrZero(options.numCrashRestarts)
                     \o " restart(s) due to crashes.",
      code |-> "Code: " \o toStr(options.notificationType) \o "",
      message |-> message,
      stackTrace |-> IF sw.stackTrace # <<>> /\ sw.stackTrace[1] # ""
                     THEN "[[" \o sw.stackTrace[1] \o "]]\n" ELSE ""]

RECURSIVE evictLoop_inclusive(_, _, _, _, _)
\* The loop with the age test >= in place of >.
evictLoop_inclusive(buf, i, ilen, time, threshold) ==
  IF i >= ilen THEN buf
  ELSE IF time - buf[1].time >= threshold
       THEN evictLoop_inclusive(Tail(buf), i + 1, ilen, time, threshold)
       ELSE evictLoop_inclusive(buf, i + 1, ilen, time, threshold)

RECURSIVE evictLoop(_, _, _, _, _)
\* The for loop of storeChildStderr: ilen rounds, each looks at the front.
evictLoop(buf, i, ilen, time, threshold) ==
  IF i >= ilen THEN buf
  ELSE IF time - buf[1].time > threshold
       THEN evictLoop(Tail(buf), i + 1, ilen, time, threshold)
       ELSE evictLoop(buf, i + 1, ilen, time, threshold)

\* storeChildStderr that pushes the entry and drops nothing.
storeChildStderr_noEvict(buf, threshold, time, message) ==
  Append(buf, [time |-> time, message |-> message])

storeChildStderr(buf, threshold, time, message) ==
  LET pushed == Append(buf, [time |-> time, message |-> message])
  IN evictLoop(pushed, 0, Len(pushed), time, threshold)

RECURSIVE join(_, _)
\* Array.prototype.join.
join(strs, sep) ==
  IF strs = <<>> THEN ""
  ELSE IF Len(strs) = 1 THEN strs[1]
  ELSE strs[1] \o sep \o join(Tail(strs), sep)

getChildStderr(buf) ==
  join([i \in 1..Len(buf) |-> buf[i].message], "\n")

\* clearChildStderr that leaves the buffer as it is.
clearChildStderr_keep(buf) == buf

clearChildStderr(buf) == <<>>

\* The message startApp logs, from the value of this.numRestarts it reads.
startMessage(nr) ==
  IF nr # 0 THEN [message |-> "Restarting app", n |-> nr + 1]
  ELSE [message |-> "Starting app", n |-> 0]

\* The message of the quit branch.
quitMessage(roc) ==
  IF ~Truthy(roc) THEN [message |-> "Restart on crash is disabled! Quitting...", n |-> 0]
  ELSE [message |-> "Max restarts reached! Quitting...", n |-> 0]

ChannelIds == 1..Len(notifications)

(***************************************************************************)
(* Initial state: the object as the constructor leaves it, for every       *)
(* configuration within the bounds.                                        *)
(***************************************************************************)
Init ==
  /\ restartOnCrash \in RestartOnCrashValues
  /\ maxRestarts \in 0..MaxLimit
  /\ \E n \in 0..MaxChannels : notifications = [i \in 1..n |-> i]
  /\ numRestarts = 0
  /\ childApp = <<>>
  /\ childAppStartTime = <<>>
  /\ childAppStderrBuffer = <<>>
  /\ now = 0
  /\ liveChildren = {}
  /\ sigterm = {}
  /\ phase = "constructed"
  /\ newNumRestarts = 0
  /\ tooManyRestarts = FALSE
  /\ restartAction = "none"
  /\ notificationType = "none"
  /\ alert = <<>>
  /\ sendState = [c \in 1..Len(notifications) |-> "idle"]
  /\ sendLog = <<>>
  /\ pendingWrites = <<>>
  /\ quitWriteErr = "none"
  /\ consoleLog = <<>>
  /\ exitTimer = <<>>
  /\ exitStatus = <<>>
  /\ uncaught = FALSE
  /\ initErr = FALSE
  /\ numSpawns = 0
  /\ numExits = 0
  /\ numStderr = 0
  /\ initWhat = "none"
  /\ initItems = <<>>
  /\ crashWriteErr = "none"
  /\ stderrSinceSpawn = FALSE
  /\ sendText = <<>>
  /\ thrownErr = <<>>

Running == exitStatus = <<>>
\* The values of phase between a child's close and the final callback.
PipelinePhases == {"checkMaxRestarts", "notifyExternally", "sending", "final"}

configVars == <<restartOnCrash, maxRestarts, notifications>>
crashLocals == <<newNumRestarts, tooManyRestarts, restartAction, notificationType, alert>>
sendVars == <<sendState, sendLog>>
childVars == <<childApp, childAppStartTime, liveChildren, numSpawns>>
writeVars == <<pendingWrites, quitWriteErr>>
exitVars == <<exitTimer, exitStatus, uncaught>>
counters == <<numExits, numStderr>>
initLocals == <<initWhat, initItems>>

(***************************************************************************)
(* startApp, as run with this.numRestarts = nr: logs the start message,    *)
(* spawns the child, remembers the start time.                             *)
(***************************************************************************)
startApp(nr) ==
  /\ consoleLog' = Append(consoleLog, startMessage(nr))
  /\ numSpawns' = numSpawns + 1
  /\ childApp' = <<numSpawns + 1>>
  /\ liveChildren' = liveChildren \cup {numSpawns + 1}
  /\ childAppStartTime' = <<now>>

\* A callback that is called with null at the first completion.
eachResult_firstDone(st) ==
  IF \E c \in DOMAIN st : st[c] = "err" THEN "err"
  ELSE IF \E c \in DOMAIN st : st[c] = "ok" THEN "ok"
  ELSE "pending"

\* A callback that is called once every item has completed, then with the
\* error if there was one.
eachResult_allDone(st) ==
  IF \E c \in DOMAIN st : st[c] = "inflight" THEN "pending"
  ELSE IF \E c \in DOMAIN st : st[c] = "err" THEN "err"
  ELSE "ok"

\* What async.each and async.forEachOf do after a completion: the callback
\* gets the first error, or null once every item has completed.
eachResult(st) ==
  IF \E c \in DOMAIN st : st[c] = "err" THEN "err"
  ELSE IF \A c \in DOMAIN st : st[c] = "ok" THEN "ok"
  ELSE "pending"

(***************************************************************************)
(* init.  initSomething(what) calls init on every item of the list at once *)
(* (async.forEachOf) and calls back at the first error or when every item  *)
(* has called back without one.  config.trawler.streams is read by init    *)
(* alone, so the number of streams is drawn when init reads it.  The items *)
(* call back in later turns; an empty list calls back at once.             *)
(***************************************************************************)
\* The callbacks that ignore the error of initSomething.
initCallback_ignoreErr(what, err) ==
  IF what = "streams" THEN "initNotifications" ELSE "startApp"

\* What the callback init gives to initSomething(what) does next.
initCallback(what, err) ==
  IF err THEN "finish(err)"
  ELSE IF what = "streams" THEN "initNotifications" ELSE "startApp"

\* return finish(err).
initFinishErr ==
  /\ initErr' = TRUE
  /\ phase' = "initFailed"
  /\ UNCHANGED <<childVars, consoleLog>>

\* this.startApp(); return finish(null).
initStart ==
  /\ startApp(numRestarts)
  /\ phase' = "idle"
  /\ UNCHANGED initErr

\* initSomething('notifications') with the items in the states st.
initNotifications(st) ==
  /\ initWhat' = "notifications"
  /\ initItems' = st
  /\ IF eachResult(st) = "pending"
     THEN /\ phase' = "initNotifications"
          /\ UNCHANGED <<initErr, childVars, consoleLog>>
     ELSE IF initCallback("notifications", eachResult(st) = "err") = "startApp"
     THEN initStart
     ELSE initFinishErr

\* initSomething('streams') with the items in the states st.
initStreams(st) ==
  IF eachResult(st) = "pending"
  THEN /\ initWhat' = "streams"
       /\ initItems' = st
       /\ phase' = "initStreams"
       /\ UNCHANGED <<initErr, childVars, consoleLog>>
  ELSE IF initCallback("streams", eachResult(st) = "err") = "initNotifications"
  THEN initNotifications([i \in 1..Len(notifications) |-> "inflight"])
  ELSE /\ initWhat' = "streams"
       /\ initItems' = st
       /\ initFinishErr

\* init(finish) is called.
InitTrawler ==
  /\ Running
  /\ phase = "constructed"
  /\ \E n \in 0..MaxStreams : initStreams([i \in 1..n |-> "inflight"])
  /\ stderrSinceSpawn' = (numSpawns' = numSpawns /\ stderrSinceSpawn)
  /\ UNCHANGED <<configVars, numRestarts, childAppStderrBuffer, now, sigterm,
                 crashLocals, sendVars, writeVars, exitVars, counters,
                 crashWriteErr, sendText, thrownErr>>

\* The init of one stream or notification calls back, with an error or
\* without.  After initSomething has called back with an error the later
\* callbacks of its items do nothing.
InitItemDone ==
  /\ Running
  /\ phase \in {"initStreams", "initNotifications", "initFailed"}
  /\ \E i \in 1..Len(initItems), outcome \in {"ok", "err"} :
       /\ initItems[i] = "inflight"
       /\ IF phase = "initFailed"
          THEN /\ initItems' = [initItems EXCEPT ![i] = outcome]
               /\ UNCHANGED <<initWhat, phase, initErr, childVars, consoleLog>>
          ELSE IF initWhat = "streams"
          THEN initStreams([initItems EXCEPT ![i] = outcome])
          ELSE initNotifications([initItems EXCEPT ![i] = outcome])
  /\ stderrSinceSpawn' = (numSpawns' = numSpawns /\ stderrSinceSpawn)
  /\ UNCHANGED <<configVars, numRestarts, childAppStderrBuffer, now, sigterm,
                 crashLocals, sendVars, writeVars, exitVars, counters,
                 crashWriteErr, sendText, thrownErr>>

\* Events of a child arriving also after its 'close' was handled.
ChildIsLive_staleHandle == childApp # <<>>

\* The child this.childApp holds runs: its events can arrive.
ChildIsLive == childApp # <<>> /\ childApp[1] \in liveChildren

(***************************************************************************)
(* 'data' on the child's stdout: processChildAppOutput('app-output', buf). *)
(* outputLog writes the line to internalStream and touches nothing else.   *)
(***************************************************************************)
ChildStdout ==
  /\ Running
  /\ ChildIsLive
  /\ UNCHANGED vars

(***************************************************************************)
(* 'data' on the child's stderr: processChildAppOutput('app-error', buf),  *)
(* whose outputLog stores the message in the stderr buffer under the time  *)
(* it reads from the clock.                                                *)
(***************************************************************************)
ChildStderr ==
  /\ Running
  /\ ChildIsLive
  /\ numStderr < MaxStderr
  /\ numStderr' = numStderr + 1
  /\ \E d \in Delays :
       /\ now + d <= MaxTime
       /\ now' = now + d
       /\ childAppStderrBuffer' =
            storeChildStderr(childAppStderrBuffer, childAppStderrThreshold,
                             now + d, Chunk(numStderr + 1))
  /\ stderrSinceSpawn' = TRUE
  /\ UNCHANGED <<configVars, numRestarts, childVars, sigterm, phase,
                 crashLocals, sendVars, writeVars, consoleLog, exitVars,
                 initErr, numExits, initLocals, crashWriteErr, sendText,
                 thrownErr>>

(***************************************************************************)
(* 'close' on the child: onAppCrash runs up to the end of the first        *)
(* waterfall task, logAppCrash, which hands the crash message to outputLog *)
(* without a callback and goes on.                                         *)
(***************************************************************************)
\* onAppCrash bound to an event that comes while the child still runs.
OnAppCrash_keepLive ==
  /\ Running
  /\ ChildIsLive
  /\ numExits < MaxCrashes
  /\ numExits' = numExits + 1
  /\ UNCHANGED liveChildren
  /\ newNumRestarts' = numRestarts + 1
  /\ consoleLog' = Append(consoleLog, [message |-> "crashed", n |-> numRestarts + 1])
  /\ pendingWrites' = Append(pendingWrites, "crash")
  /\ crashWriteErr' = "none"
  /\ phase' = "checkMaxRestarts"
  /\ UNCHANGED <<configVars, numRestarts, childApp, childAppStartTime, numSpawns,
                 childAppStderrBuffer, now, sigterm, tooManyRestarts,
                 restartAction, notificationType, alert, sendVars, quitWriteErr,
                 exitVars, initErr, numStderr, initLocals, stderrSinceSpawn,
                 sendText, thrownErr>>

OnAppCrash ==
  /\ Running
  /\ ChildIsLive
  /\ numExits < MaxCrashes
  /\ numExits' = numExits + 1
  /\ liveChildren' = liveChildren \ {childApp[1]}
  /\ newNumRestarts' = numRestarts + 1
  /\ consoleLog' = Append(consoleLog, [message |-> "crashed", n |-> numRestarts + 1])
  /\ pendingWrites' = Append(pendingWrites, "crash")
  /\ crashWriteErr' = "none"
  /\ phase' = "checkMaxRestarts"
  /\ UNCHANGED <<configVars, numRestarts, childApp, childAppStartTime, numSpawns,
                 childAppStderrBuffer, now, sigterm, tooManyRestarts,
                 restartAction, notificationType, alert, sendVars, quitWriteErr,
                 exitVars, initErr, numStderr, initLocals, stderrSinceSpawn,
                 sendText, thrownErr>>

(***************************************************************************)
(* Second waterfall task.                                                  *)
(***************************************************************************)
CheckMaxRestarts ==
  /\ Running
  /\ phase = "checkMaxRestarts"
  /\ LET r == checkMaxRestarts(restartOnCrash, maxRestarts, newNumRestarts)
     IN /\ tooManyRestarts' = r.tooManyRestarts
        /\ restartAction' = r.restartAction
  /\ phase' = "notifyExternally"
  /\ UNCHANGED <<configVars, numRestarts, childVars, childAppStderrBuffer, now,
                 sigterm, newNumRestarts, notificationType, alert, sendVars,
                 writeVars, consoleLog, exitVars, initErr, counters, initLocals,
                 crashWriteErr, stderrSinceSpawn, sendText, thrownErr>>

\* async.eachSeries: only the first item's iteratee is called at once.
invokedBySeries(channels) ==
  IF channels = <<>> THEN <<>> ELSE <<Head(channels)>>

\* async.each calls the iteratee on every item of the array, in array order,
\* in the turn it is called in; it waits for none of them.
invokedByEach(channels) == channels

\* The restart branch with the two statements swapped.
restartBranch_spawnFirst ==
  /\ startApp(numRestarts)
  /\ numRestarts' = newNumRestarts

\* The restart branch of the waterfall's final callback.
restartBranch ==
  /\ numRestarts' = newNumRestarts
  /\ startApp(newNumRestarts)

\* The quit branch that keeps the child handle.
quitBranch_keepChild ==
  /\ UNCHANGED childApp
  /\ consoleLog' = Append(consoleLog, quitMessage(restartOnCrash))
  /\ pendingWrites' = Append(pendingWrites, "quit")

\* The quit branch of the waterfall's final callback.
quitBranch ==
  /\ childApp' = <<>>
  /\ consoleLog' = Append(consoleLog, quitMessage(restartOnCrash))
  /\ pendingWrites' = Append(pendingWrites, "quit")

\* The final callback without its first statement, if (err) { throw err; }.
finalCallback_swallowErr(err) ==
  IF restartAction = "restart"
  THEN /\ restartBranch
       /\ phase' = "idle"
       /\ UNCHANGED <<pendingWrites, uncaught, exitStatus>>
  ELSE /\ quitBranch
       /\ phase' = "quitting"
       /\ UNCHANGED <<numRestarts, childAppStartTime, liveChildren, numSpawns,
                      uncaught, exitStatus>>

(***************************************************************************)
(* The final callback of the waterfall: throws the error if there is one,  *)
(* else restarts or quits as restartAction says.  The thrown error is      *)
(* caught by nobody and ends the process.                                  *)
(***************************************************************************)
finalCallback(err) ==
  IF err
  THEN /\ uncaught' = TRUE
       /\ exitStatus' = <<1>>
       /\ UNCHANGED <<numRestarts, childVars, consoleLog, pendingWrites, phase>>
  ELSE IF restartAction = "restart"
  THEN /\ restartBranch
       /\ phase' = "idle"
       /\ UNCHANGED <<pendingWrites, uncaught, exitStatus>>
  ELSE IF restartAction = "quit"
  THEN /\ quitBranch
       /\ phase' = "quitting"
       /\ UNCHANGED <<numRestarts, childAppStartTime, liveChildren, numSpawns,
                      uncaught, exitStatus>>
  ELSE /\ phase' = "idle"
       /\ UNCHANGED <<numRestarts, childVars, consoleLog, pendingWrites,
                      uncaught, exitStatus>>

(***************************************************************************)
(* Third waterfall task: choose the notification type, build the options   *)
(* and call sendNotifications, which starts a send on every channel.  With *)
(* no channel async.each calls back at once and the final callback is the  *)
(* next turn.                                                              *)
(***************************************************************************)
\* notifyExternally that calls next without waiting for sendNotifications.
NotifyExternally_noWait ==
  /\ Running
  /\ phase = "notifyExternally"
  /\ notificationType' = chooseNotificationType(restartOnCrash, tooManyRestarts)
  /\ alert' = <<[notificationType |-> chooseNotificationType(restartOnCrash, tooManyRestarts),
                 numRestarts |-> formatNumRestarts(restartOnCrash, maxRestarts, newNumRestarts),
                 childAppStderrBuffer |-> getChildStderr(childAppStderrBuffer),
                 childAppStartTime |-> childAppStartTime]>>
  /\ sendLog' = invokedByEach(notifications)
  /\ sendText' = [i \in 1..Len(invokedByEach(notifications)) |-> send(alert'[1])]
  /\ crashWriteErr' = "none"
  /\ sendState' = [c \in ChannelIds |-> "inflight"]
  /\ phase' = "final"
  /\ UNCHANGED <<configVars, numRestarts, childVars, childAppStderrBuffer, now,
                 sigterm, newNumRestarts, tooManyRestarts, restartAction,
                 writeVars, consoleLog, exitVars, initErr, counters, initLocals,
                 stderrSinceSpawn, thrownErr>>

NotifyExternally ==
  /\ Running
  /\ phase = "notifyExternally"
  /\ notificationType' = chooseNotificationType(restartOnCrash, tooManyRestarts)
  /\ alert' = <<[notificationType |-> chooseNotificationType(restartOnCrash, tooManyRestarts),
                 numRestarts |-> formatNumRestarts(restartOnCrash, maxRestarts, newNumRestarts),
                 childAppStderrBuffer |-> getChildStderr(childAppStderrBuffer),
                 childAppStartTime |-> childAppStartTime]>>
  /\ sendLog' = invokedByEach(notifications)
  /\ sendText' = [i \in 1..Len(invokedByEach(notifications)) |-> send(alert'[1])]
  /\ crashWriteErr' = "none"
  /\ sendState' = [c \in ChannelIds |->
                     IF \E i \in 1..Len(invokedByEach(notifications)) :
                          invokedByEach(notifications)[i] = c
                     THEN "inflight" ELSE "idle"]
  /\ phase' = IF notifications = <<>> THEN "final" ELSE "sending"
  /\ UNCHANGED <<configVars, numRestarts, childVars, childAppStderrBuffer, now,
                 sigterm, newNumRestarts, tooManyRestarts, restartAction,
                 writeVars, consoleLog, exitVars, initErr, counters, initLocals,
                 stderrSinceSpawn, thrownErr>>

(***************************************************************************)
(* The final callback when no channel is registered.                       *)
(***************************************************************************)
FinalCallback ==
  /\ Running
  /\ phase = "final"
  /\ finalCallback(FALSE)
  /\ stderrSinceSpawn' = (numSpawns' = numSpawns /\ stderrSinceSpawn)
  /\ UNCHANGED <<configVars, childAppStderrBuffer, now, sigterm, crashLocals,
                 sendVars, quitWriteErr, exitTimer, initErr, counters,
                 initLocals, crashWriteErr, sendText, thrownErr>>

(***************************************************************************)
(* A channel's send calls back, with an error or without.  async.each then *)
(* calls sendNotifications' callback (first error, or all done), which     *)
(* runs the final callback in the same turn.                               *)
(***************************************************************************)
SendCompletes(c, outcome) ==
  /\ Running
  /\ phase = "sending"
  /\ sendState[c] = "inflight"
  /\ sendState' = [sendState EXCEPT ![c] = outcome]
  /\ LET res == eachResult([sendState EXCEPT ![c] = outcome])
     IN /\ IF res = "pending"
           THEN UNCHANGED <<numRestarts, childVars, consoleLog, pendingWrites,
                            phase, uncaught, exitStatus>>
           ELSE finalCallback(res = "err")
        /\ thrownErr' = IF res = "err" THEN <<c>> ELSE thrownErr
  /\ stderrSinceSpawn' = (numSpawns' = numSpawns /\ stderrSinceSpawn)
  /\ UNCHANGED <<configVars, childAppStderrBuffer, now, sigterm, crashLocals,
                 sendLog, quitWriteErr, exitTimer, initErr, counters,
                 initLocals, crashWriteErr, sendText>>

SendComplete ==
  \E c \in ChannelIds, outcome \in {"ok", "err"} : SendCompletes(c, outcome)

(***************************************************************************)
(* The callback of the oldest pending internalStream.write fires, with an  *)
(* error or without.  The quit message's callback ignores the error and    *)
(* arms the exit timer; the crash message has no callback: outputLog's     *)
(* default finish takes the outcome and does nothing.  crashWriteErr notes *)
(* a write of the crash message that fails before the alert of that crash  *)
(* is dispatched.                                                          *)
(***************************************************************************)
\* The write callback that throws the error of a write that has no callback
\* of its own.
WriteComplete_throwErr ==
  /\ Running
  /\ pendingWrites # <<>>
  /\ \E err \in BOOLEAN :
       /\ pendingWrites' = Tail(pendingWrites)
       /\ IF Head(pendingWrites) = "quit"
          THEN /\ exitTimer' = <<now + GraceDelay>>
               /\ quitWriteErr' = IF err THEN "err" ELSE "ok"
               /\ UNCHANGED <<crashWriteErr, uncaught, exitStatus>>
          ELSE /\ UNCHANGED <<exitTimer, quitWriteErr>>
               /\ crashWriteErr' =
                    IF err /\ phase \in {"checkMaxRestarts", "notifyExternally"}
                    THEN "err" ELSE crashWriteErr
               /\ uncaught' = (uncaught \/ err)
               /\ exitStatus' = IF err THEN <<1>> ELSE exitStatus
  /\ UNCHANGED <<configVars, numRestarts, childVars, childAppStderrBuffer, now,
                 sigterm, phase, crashLocals, sendVars, consoleLog, initErr,
                 counters, initLocals, stderrSinceSpawn, sendText, thrownErr>>

WriteComplete ==
  /\ Running
  /\ pendingWrites # <<>>
  /\ \E err \in BOOLEAN :
       /\ pendingWrites' = Tail(pendingWrites)
       /\ IF Head(pendingWrites) = "quit"
          THEN /\ exitTimer' = <<now + GraceDelay>>
               /\ quitWriteErr' = IF err THEN "err" ELSE "ok"
               /\ UNCHANGED crashWriteErr
          ELSE /\ UNCHANGED <<exitTimer, quitWriteErr>>
               /\ crashWriteErr' =
                    IF /\ err
                       /\ phase \in {"checkMaxRestarts", "notifyExternally"}
                       /\ \A i \in 2..Len(pendingWrites) : pendingWrites[i] # "crash"
                    THEN "err"
                    ELSE crashWriteErr
  /\ UNCHANGED <<configVars, numRestarts, childVars, childAppStderrBuffer, now,
                 sigterm, phase, crashLocals, sendVars, consoleLog, exitStatus,
                 uncaught, initErr, counters, initLocals, stderrSinceSpawn,
                 sendText, thrownErr>>

(***************************************************************************)
(* The exit timer fires, GraceDelay after it was armed: process.exit(1).   *)
(***************************************************************************)
TimerFire ==
  /\ Running
  /\ exitTimer # <<>>
  /\ now' = IF now < exitTimer[1] THEN exitTimer[1] ELSE now
  /\ exitStatus' = <<1>>
  /\ UNCHANGED <<configVars, numRestarts, childVars, childAppStderrBuffer,
                 sigterm, phase, crashLocals, sendVars, writeVars, consoleLog,
                 exitTimer, uncaught, initErr, counters, initLocals,
                 crashWriteErr, stderrSinceSpawn, sendText, thrownErr>>

\* The tidy-up that forgets to clear the start time.
tidyChild_keepStartTime ==
  /\ sigterm' = sigterm \cup {childApp[1]}
  /\ liveChildren' = liveChildren \ {childApp[1]}
  /\ childApp' = <<>>
  /\ UNCHANGED childAppStartTime
  /\ childAppStderrBuffer' = clearChildStderr(childAppStderrBuffer)

\* killApp's tidy-up of the child, done when this.childApp is set.
tidyChild ==
  /\ sigterm' = sigterm \cup {childApp[1]}
  /\ liveChildren' = liveChildren \ {childApp[1]}
  /\ childApp' = <<>>
  /\ childAppStartTime' = <<>>
  /\ childAppStderrBuffer' = clearChildStderr(childAppStderrBuffer)

\* killApp that exits with status 1 when the last decision is 'quit'.
KillApp_quitWins ==
  /\ Running
  /\ IF childApp # <<>>
     THEN tidyChild
     ELSE UNCHANGED <<sigterm, liveChildren, childApp, childAppStartTime,
                      childAppStderrBuffer>>
  /\ consoleLog' = consoleLog \o <<[message |-> "Killing app", n |-> 0],
                                   [message |-> "Goodbye.", n |-> 0]>>
  /\ exitStatus' = IF restartAction = "quit" THEN <<1>> ELSE <<0>>
  /\ UNCHANGED <<configVars, numRestarts, numSpawns, now, phase, crashLocals,
                 sendVars, writeVars, exitTimer, uncaught, initErr, counters,
                 initLocals, crashWriteErr, stderrSinceSpawn, sendText,
                 thrownErr>>

(***************************************************************************)
(* killApp: kill the child if there is a handle, forget it, say goodbye,   *)
(* process.exit(0).                                                        *)
(***************************************************************************)
KillApp ==
  /\ Running
  /\ IF childApp # <<>>
     THEN tidyChild
     ELSE UNCHANGED <<sigterm, liveChildren, childApp, childAppStartTime,
                      childAppStderrBuffer>>
  /\ consoleLog' = consoleLog \o <<[message |-> "Killing app", n |-> 0],
                                   [message |-> "Goodbye.", n |-> 0]>>
  /\ exitStatus' = <<0>>
  /\ UNCHANGED <<configVars, numRestarts, numSpawns, now, phase, crashLocals,
                 sendVars, writeVars, exitTimer, uncaught, initErr, counters,
                 initLocals, crashWriteErr, stderrSinceSpawn, sendText,
                 thrownErr>>

Next ==
  \/ InitTrawler
  \/ InitItemDone
  \/ ChildStdout
  \/ ChildStderr
  \/ OnAppCrash
  \/ CheckMaxRestarts
  \/ NotifyExternally
  \/ FinalCallback
  \/ SendComplete
  \/ WriteComplete
  \/ TimerFire
  \/ KillApp

Spec == Init /\ [][Next]_vars

(***************************************************************************)
(* The event loop runs the callbacks that are due: a pending stream write  *)
(* calls back and an armed timer fires.                                    *)
(***************************************************************************)
FairSpec == Spec /\ WF_vars(WriteComplete) /\ WF_vars(TimerFire)

(***************************************************************************)
(* The event loop runs the tasks of the waterfall that are due.  Nothing   *)
(* makes a channel's send call back.                                       *)
(***************************************************************************)
PipelineStep == CheckMaxRestarts \/ NotifyExternally \/ FinalCallback

PipelineFairSpec == Spec /\ WF_vars(PipelineStep)

(***************************************************************************)
(* storeChildStderr on a supervisor whose childAppStderrThreshold is 0: the *)
(* supervisor is as the constructor leaves it under the default config, and *)
(* each step is one call of storeChildStderr under the time the call reads  *)
(* from the clock.                                                         *)
(***************************************************************************)
ZeroThreshold == 0

ZeroThresholdInit ==
  /\ Init
  /\ restartOnCrash = "null"
  /\ maxRestarts = 0
  /\ notifications = <<>>

StoreZeroThreshold ==
  /\ numStderr < MaxStores
  /\ numStderr' = numStderr + 1
  /\ \E d \in Delays :
       /\ now' = now + d
       /\ childAppStderrBuffer' =
            storeChildStderr(childAppStderrBuffer, ZeroThreshold,
                             now + d, Chunk(numStderr + 1))
  /\ stderrSinceSpawn' = TRUE
  /\ UNCHANGED <<configVars, numRestarts, childVars, sigterm, phase,
                 crashLocals, sendVars, writeVars, consoleLog, exitVars,
                 initErr, numExits, initLocals, crashWriteErr, sendText,
                 thrownErr>>

ZeroThresholdSpec == ZeroThresholdInit /\ [][StoreZeroThreshold]_vars

TypeOK ==
  /\ numRestarts \in 0..MaxCrashes
  /\ phase \in {"constructed", "initStreams", "initNotifications", "initFailed",
                "idle", "checkMaxRestarts", "notifyExternally", "sending",
                "final", "quitting"}
  /\ restartAction \in {"none", "restart", "quit"}
  /\ Len(childApp) <= 1

(***************************************************************************)
(* Vocabulary of the properties.                                           *)
(***************************************************************************)
\* The restart decision of the current crash has been computed.
DecisionMade == restartAction # "none" /\ phase # "checkMaxRestarts"
\* The alert of the current crash has been handed to sendNotifications.
Dispatched ==
  \/ phase \in {"sending", "final", "quitting"}
  \/ (phase = "idle" /\ numExits > 0)
InFlight == {c \in ChannelIds : sendState[c] = "inflight"}
AllSendsOk == \A c \in ChannelIds : sendState[c] = "ok"
IsStartEntry(e) == e.message \in {"Starting app", "Restarting app"}
StartEntries == SelectSeq(consoleLog, IsStartEntry)
QuitLogged ==
  \E i \in 1..Len(consoleLog) :
    consoleLog[i].message \in {"Restart on crash is disabled! Quitting...",
                               "Max restarts reached! Quitting..."}
SaidGoodbye ==
  consoleLog # <<>> /\ consoleLog[Len(consoleLog)].message = "Goodbye."
\* This step is a run of killApp.
KillStep ==
  /\ Len(consoleLog') = Len(consoleLog) + 2
  /\ consoleLog'[Len(consoleLog) + 1].message = "Killing app"
\* This step is a run of storeChildStderr.
StoreStep == numStderr' = numStderr + 1
\* This step takes the restart or the terminate action of a crash.
ActionTaken ==
  /\ numExits > 0
  /\ \/ numSpawns' # numSpawns
     \/ (phase # "quitting" /\ phase' = "quitting")
\* The entries of buf that are at most threshold old at time t.
YoungEnough(buf, t, threshold) ==
  LET keep(e) == t - e.time <= threshold IN SelectSeq(buf, keep)

(***************************************************************************)
(* C1 as stated: dispatch is sequential, so at no time are two sends in    *)
(* flight.                                                                 *)
(***************************************************************************)
C1_AtMostOneSendInFlight == Cardinality(InFlight) <= 1

(***************************************************************************)
(* C1, amended: on every crash sendNotifications invokes send on every     *)
(* registered channel, in registration order, in the one step that         *)
(* dispatches the alert; it waits for no send to complete before it starts *)
(* the next, so all registered sends are in flight together.               *)
(***************************************************************************)
C1_AllSendsStartTogether ==
  [][(phase = "notifyExternally" /\ phase' # "notifyExternally")
       => /\ sendLog' = notifications
          /\ \A c \in ChannelIds : sendState'[c] = "inflight"]_vars

C1_Witness ==
  /\ phase = "sending"
  /\ Len(notifications) = 3
  /\ InFlight = {1, 2, 3}

(***************************************************************************)
(* C2: with restartOnCrash true and maxRestarts = M > 0 the decision is    *)
(* 'restart' for every prospective count in 1..M-1 and 'quit', by the      *)
(* limit, at prospective count M.                                          *)
(***************************************************************************)
C2_LimitEnforcement ==
  (Truthy(restartOnCrash) /\ maxRestarts > 0 /\ DecisionMade) =>
    /\ newNumRestarts \in 1..maxRestarts
    /\ newNumRestarts < maxRestarts =>
         (restartAction = "restart" /\ ~tooManyRestarts)
    /\ newNumRestarts = maxRestarts =>
         (restartAction = "quit" /\ tooManyRestarts)

C2_Witness ==
  /\ restartOnCrash = "true"
  /\ maxRestarts = 3
  /\ numRestarts = 2
  /\ newNumRestarts = 3
  /\ phase = "notifyExternally"
  /\ restartAction = "quit"

(***************************************************************************)
(* C3: when restartOnCrash is false or unset the decision is 'quit' for    *)
(* the disabled reason, for every maxRestarts and every restart count: the *)
(* notification type and the quit message are those of disabled restarts   *)
(* also when the limit test is true.                                       *)
(***************************************************************************)
C3_DisabledRestarts ==
  /\ phase = "constructed" =>
     \A roc \in {"null", "false"}, max \in 0..MaxLimit, newNum \in 1..(MaxCrashes + 1) :
       LET r == checkMaxRestarts(roc, max, newNum)
       IN /\ r.restartAction = "quit"
          /\ chooseNotificationType(roc, r.tooManyRestarts) = "app-no-restart"
          /\ quitMessage(roc).message = "Restart on crash is disabled! Quitting..."
  /\ (~Truthy(restartOnCrash) /\ DecisionMade) =>
       /\ restartAction = "quit"
       /\ numSpawns = 1
       /\ Dispatched => notificationType = "app-no-restart"
       /\ phase = "quitting" =>
            \E i \in 1..Len(consoleLog) :
              consoleLog[i].message = "Restart on crash is disabled! Quitting..."
       /\ \A i \in 1..Len(consoleLog) :
            consoleLog[i].message # "Max restarts reached! Quitting..."

C3_Witness ==
  /\ restartOnCrash = "false"
  /\ maxRestarts = 1
  /\ tooManyRestarts
  /\ phase = "quitting"
  /\ notificationType = "app-no-restart"

(***************************************************************************)
(* C4: with restartOnCrash true and maxRestarts = 0, after N child exits   *)
(* whose crash pipelines completed numRestarts is N, and startApp of a     *)
(* crash runs with numRestarts already incremented: the k-th start of the  *)
(* app (k > 1) logs "Restarting app (k starts)".                           *)
(***************************************************************************)
C4_RestartCounting ==
  (Truthy(restartOnCrash) /\ maxRestarts = 0) =>
    /\ phase = "idle" => (numRestarts = numExits /\ numSpawns = numExits + 1)
    /\ phase \in {"checkMaxRestarts", "notifyExternally", "sending", "final"} =>
         (numRestarts = numExits - 1 /\ numSpawns = numExits)
    /\ phase # "quitting"
    /\ Len(StartEntries) = numSpawns
    /\ \A k \in 1..Len(StartEntries) :
         IF k = 1 THEN StartEntries[k].message = "Starting app"
         ELSE StartEntries[k] = [message |-> "Restarting app", n |-> k]

C4_Witness ==
  /\ restartOnCrash = "true"
  /\ maxRestarts = 0
  /\ phase = "idle"
  /\ numExits = 3
  /\ numRestarts = 3
  /\ numSpawns = 4

(***************************************************************************)
(* C5: the notificationType dispatched for a crash is 'app-no-restart'     *)
(* exactly when restartOnCrash is false, 'app-restart-limit' exactly when  *)
(* it is true and the prospective count has reached a positive             *)
(* maxRestarts, 'app-crash' otherwise; and 'app-crash' goes exactly with   *)
(* the action 'restart'.                                                   *)
(***************************************************************************)
C5_Classification ==
  Dispatched =>
    LET limit == Truthy(restartOnCrash) /\ maxRestarts > 0
                 /\ newNumRestarts >= maxRestarts
    IN /\ alert # <<>>
       /\ alert[1].notificationType = notificationType
       /\ notificationType \in {"app-no-restart", "app-restart-limit", "app-crash"}
       /\ (notificationType = "app-no-restart") <=> ~Truthy(restartOnCrash)
       /\ (notificationType = "app-restart-limit") <=> limit
       /\ (notificationType = "app-crash") <=> (Truthy(restartOnCrash) /\ ~limit)
       /\ (notificationType = "app-crash") <=> (restartAction = "restart")

C5_Witness ==
  /\ phase = "sending"
  /\ restartOnCrash = "true"
  /\ maxRestarts = 2
  /\ numExits = 2
  /\ alert[1].notificationType = "app-restart-limit"

(***************************************************************************)
(* C6 as stated: whenever the decision of a crash is 'quit', the           *)
(* supervisor ends with a non-zero status, childApp cleared and the final  *)
(* message logged.                                                         *)
(***************************************************************************)
C6_QuitEndsNonZero ==
  (DecisionMade /\ restartAction = "quit" /\ exitStatus # <<>>) =>
    (exitStatus = <<1>> /\ childApp = <<>> /\ QuitLogged)

(***************************************************************************)
(* C6, amended: when the final callback takes the quit branch (the         *)
(* decision is 'quit' and every send completed without error), childApp is *)
(* cleared, the final supervisor message is logged and no child is spawned *)
(* afterwards; the supervisor then ends: with status 1, GraceDelay after   *)
(* the callback of the final log write, whether that write failed or not,  *)
(* unless killApp is called first, which ends it with status 0.            *)
(***************************************************************************)
C6_TerminationOnQuit ==
  /\ [](phase = "quitting" =>
          /\ restartAction = "quit"
          /\ childApp = <<>>
          /\ liveChildren = {}
          /\ QuitLogged)
  /\ [][phase = "quitting" =>
          (phase' = "quitting" /\ numSpawns' = numSpawns /\ childApp' = <<>>)]_vars
  /\ []((phase = "quitting" /\ exitStatus # <<>>) =>
          IF SaidGoodbye THEN exitStatus = <<0>>
          ELSE /\ exitStatus = <<1>>
               /\ quitWriteErr \in {"ok", "err"}
               /\ exitTimer # <<>>
               /\ now >= exitTimer[1])
  /\ [][(exitTimer = <<>> /\ exitTimer' # <<>>) =>
          exitTimer'[1] = now + GraceDelay]_vars
  /\ (phase = "quitting" ~> exitStatus # <<>>)

C6_Witness ==
  /\ phase = "quitting"
  /\ exitStatus = <<1>>
  /\ quitWriteErr = "err"
  /\ ~uncaught

(***************************************************************************)
(* C7: killApp while a child is running kills the child, clears the stderr *)
(* buffer and the start time, says goodbye and exits with status 0; it     *)
(* computes no restart decision, sends no notification and spawns nothing, *)
(* and nothing happens after it.                                           *)
(***************************************************************************)
C7_ManualKill ==
  /\ [][(KillStep /\ ChildIsLive) =>
          /\ childApp[1] \in sigterm'
          /\ liveChildren' = {}
          /\ childApp' = <<>>
          /\ childAppStderrBuffer' = <<>>
          /\ childAppStartTime' = <<>>
          /\ consoleLog'[Len(consoleLog')].message = "Goodbye."
          /\ exitStatus' = <<0>>
          /\ UNCHANGED <<crashLocals, sendVars, numSpawns, numRestarts,
                         pendingWrites, exitTimer, numExits>>]_vars
  /\ [][exitStatus = <<0>> => UNCHANGED vars]_vars

C7_Witness ==
  /\ exitStatus = <<0>>
  /\ sigterm = {1}
  /\ numStderr > 0
  /\ restartAction = "none"
  /\ alert = <<>>
  /\ sendLog = <<>>
  /\ numSpawns = 1

(***************************************************************************)
(* C8 as stated: the crash log write has completed before any send is      *)
(* initiated, and every send has completed before the restart or the       *)
(* terminate action.                                                       *)
(***************************************************************************)
C8_LogWriteDoneBeforeSends ==
  /\ phase = "sending" =>
       \A i \in 1..Len(pendingWrites) : pendingWrites[i] # "crash"
  /\ (numExits > 0 /\ phase \in {"idle", "quitting"}) => AllSendsOk

(***************************************************************************)
(* C8, amended: for every child exit the crash message has been handed to  *)
(* outputLog (its stream write issued, not necessarily completed) before   *)
(* any send is initiated, and every send has completed, without error,     *)
(* before the restart or the terminate action is taken.                    *)
(***************************************************************************)
C8_PipelineOrder ==
  /\ [](phase \in {"notifyExternally", "sending", "final"} =>
          \E i \in 1..Len(consoleLog) :
            consoleLog[i] = [message |-> "crashed", n |-> newNumRestarts])
  /\ []((numExits > 0 /\ phase \in {"idle", "quitting"}) => AllSendsOk)
  /\ [][ActionTaken => (phase \in {"sending", "final"} /\ \A c \in ChannelIds : sendState'[c] = "ok")]_vars

C8_Witness ==
  /\ phase = "idle"
  /\ numRestarts = 1
  /\ Len(notifications) = 3
  /\ AllSendsOk
  /\ pendingWrites = <<"crash">>

(***************************************************************************)
(* C9: after every storeChildStderr(text) at time now the buffer holds, in *)
(* arrival order, exactly the entries it held whose age now - time is at   *)
(* most the retention window, followed by the new entry; a@0, b@10, c@60   *)
(* leaves "b\nc".                                                          *)
(***************************************************************************)
C9_StderrEviction ==
  /\ [][StoreStep =>
          childAppStderrBuffer' =
            Append(YoungEnough(childAppStderrBuffer, now', childAppStderrThreshold),
                   [time |-> now', message |-> Chunk(numStderr')])]_vars
  /\ [](\A i \in 1..Len(childAppStderrBuffer) :
          /\ childAppStderrBuffer[Len(childAppStderrBuffer)].time
               - childAppStderrBuffer[i].time <= childAppStderrThreshold
          /\ i > 1 => childAppStderrBuffer[i - 1].time <= childAppStderrBuffer[i].time)
  /\ []((Len(childAppStderrBuffer) = 2
          /\ childAppStderrBuffer[1] = [time |-> 10, message |-> "b"]
          /\ childAppStderrBuffer[2] = [time |-> 60, message |-> "c"])
        => getChildStderr(childAppStderrBuffer) = "b\nc")

C9_Witness ==
  /\ numStderr = 3
  /\ now = 60
  /\ childAppStderrBuffer = <<[time |-> 10, message |-> "b"],
                              [time |-> 60, message |-> "c"]>>
  /\ getChildStderr(childAppStderrBuffer) = "b\nc"

(***************************************************************************)
(* C10: getChildStderr on a buffer that was never appended to is the empty *)
(* string, and so is getChildStderr after clearChildStderr, whatever the   *)
(* buffer held.                                                            *)
(***************************************************************************)
C10_EmptyBuffer ==
  /\ [](numStderr = 0 => getChildStderr(childAppStderrBuffer) = "")
  /\ []((Dispatched /\ numStderr = 0) => alert[1].childAppStderrBuffer = "")
  /\ [][(KillStep /\ childApp # <<>>) =>
          getChildStderr(childAppStderrBuffer') = ""]_vars

C10_Witness ==
  /\ exitStatus = <<0>>
  /\ sigterm # {}
  /\ numStderr = 3
  /\ getChildStderr(childAppStderrBuffer) = ""

(***************************************************************************)
(* C11: at most one child process is alive in every state, and it is the   *)
(* one this.childApp holds; startApp runs only when no spawned child is    *)
(* still running: in init, or in the final callback of the crash pipeline  *)
(* of the child spawned last, after that child has closed.                 *)
(***************************************************************************)
C11_SingleChild ==
  /\ [](Cardinality(liveChildren) <= 1)
  /\ [](liveChildren # {} => (childApp # <<>> /\ liveChildren = {childApp[1]}))
  /\ [][numSpawns' # numSpawns =>
          /\ liveChildren = {}
          /\ liveChildren' = {numSpawns'}
          /\ numExits = numSpawns
          /\ IF numSpawns = 0
             THEN phase \in {"constructed", "initStreams", "initNotifications"}
             ELSE phase \in {"sending", "final"}]_vars

C11_Witness ==
  /\ numSpawns = 3
  /\ numExits = 2
  /\ liveChildren = {3}
  /\ childApp = <<3>>

(***************************************************************************)
(* C12: when a channel's send reports an error during the crash pipeline,  *)
(* the error is thrown out of the final callback in that same turn and     *)
(* ends the supervisor as an uncaught exception; neither the restart nor   *)
(* the terminate action of that crash is executed, numRestarts keeps its   *)
(* value, no send is started again and nothing happens afterwards.         *)
(***************************************************************************)
C12_SendFailureFatal ==
  /\ [][(phase = "sending"
          /\ \E c \in ChannelIds : sendState[c] = "inflight" /\ sendState'[c] = "err")
        => /\ uncaught'
           /\ exitStatus' = <<1>>
           /\ UNCHANGED <<numRestarts, numSpawns, childApp, liveChildren,
                          consoleLog, pendingWrites, sendLog, phase>>]_vars
  /\ [](uncaught =>
          /\ \E c \in ChannelIds : sendState[c] = "err"
          /\ phase = "sending"
          /\ numRestarts = newNumRestarts - 1
          /\ numSpawns = numExits
          /\ ~QuitLogged
          /\ exitStatus = <<1>>)
  /\ [][uncaught => UNCHANGED vars]_vars

C12_Witness ==
  /\ uncaught
  /\ Len(notifications) = 2
  /\ sendState = <<"ok", "err">>
  /\ restartAction = "restart"
  /\ numExits = 2
  /\ numRestarts = 1

(***************************************************************************)
(* C13: when the init of a stream or of a notification reports an error,   *)
(* init hands the error to its caller in that turn and never calls         *)
(* startApp; the notifications are initialised only once every stream has  *)
(* initialised without error, and the child is started only once every     *)
(* stream and every notification has.                                      *)
(***************************************************************************)
C13_InitFailureAborts ==
  /\ [][(phase \in {"initStreams", "initNotifications"}
          /\ Len(initItems') = Len(initItems)
          /\ \E i \in 1..Len(initItems) :
               initItems[i] = "inflight" /\ initItems'[i] = "err")
        => (initErr' /\ phase' = "initFailed" /\ initWhat' = initWhat
            /\ numSpawns' = 0)]_vars
  /\ [](initErr =>
          /\ phase = "initFailed"
          /\ numSpawns = 0
          /\ childApp = <<>>
          /\ \E i \in 1..Len(initItems) : initItems[i] = "err")
  /\ [][(initWhat # "notifications" /\ initWhat' = "notifications")
        => /\ ~initErr'
           /\ \/ phase = "constructed"
              \/ /\ phase = "initStreams"
                 /\ Cardinality({i \in 1..Len(initItems) : initItems[i] = "ok"})
                      = Len(initItems) - 1
                 /\ Cardinality({i \in 1..Len(initItems) : initItems[i] = "inflight"})
                      = 1]_vars
  /\ [][(numSpawns = 0 /\ numSpawns' # 0)
        => /\ ~initErr'
           /\ phase' = "idle"
           /\ initWhat' = "notifications"
           /\ Len(initItems') = Len(notifications)
           /\ \A i \in 1..Len(initItems') : initItems'[i] = "ok"]_vars

C13_Witness ==
  /\ initErr
  /\ phase = "initFailed"
  /\ initWhat = "notifications"
  /\ initItems = <<"ok", "err", "inflight">>
  /\ numSpawns = 0

(***************************************************************************)
(* C14: for every crash alert, the Restarts line of the text that          *)
(* NotificationBase.send hands to doSend, and the count in the crash       *)
(* message, show the restart count that onAppCrash dispatched.             *)
(***************************************************************************)
C14_RestartCountRendered ==
  \A i \in 1..Len(sendText) :
    /\ sendText[i].restarts =
         "Restarts: " \o alert[1].numRestarts \o " restart(s) due to crashes."
    /\ alert[1].notificationType = "app-crash" =>
         sendText[i].message =
           "The app has crashed *" \o alert[1].numRestarts \o " time(s)*!"

(***************************************************************************)
(* C15: on every crash send is invoked on every registered channel, also   *)
(* when a channel's send fails; the error handed to the crash pipeline is  *)
(* that of the first send that fails, handed over in the turn it fails,    *)
(* and no second error is handed over.                                     *)
(***************************************************************************)
C15_AllChannelsAttempted ==
  /\ [](Dispatched =>
          (sendLog = notifications /\ Len(sendText) = Len(notifications)))
  /\ [](uncaught =>
          /\ sendLog = notifications
          /\ \A c \in ChannelIds : sendState[c] # "idle"
          /\ thrownErr # <<>>
          /\ {c \in ChannelIds : sendState[c] = "err"} = {thrownErr[1]})
  /\ [][(phase = "sending"
          /\ \E c \in ChannelIds : sendState[c] = "inflight" /\ sendState'[c] = "err")
        => /\ thrownErr = <<>>
           /\ thrownErr' # <<>>
           /\ sendState[thrownErr'[1]] = "inflight"
           /\ sendState'[thrownErr'[1]] = "err"
           /\ \A c \in ChannelIds : sendState[c] # "err"]_vars
  /\ [][thrownErr # <<>> => thrownErr' = thrownErr]_vars

C15_Witness ==
  /\ uncaught
  /\ Len(notifications) = 3
  /\ sendLog = <<1, 2, 3>>
  /\ sendState = <<"err", "inflight", "inflight">>
  /\ thrownErr = <<1>>

\* This step is the callback of the write of a crash message.
CrashWriteStep ==
  /\ pendingWrites # <<>>
  /\ Head(pendingWrites) = "crash"
  /\ pendingWrites' = Tail(pendingWrites)
\* This step dispatches the alert of a crash.
DispatchStep == phase = "notifyExternally" /\ phase' # "notifyExternally"

(***************************************************************************)
(* C16 as stated: the failure of the write of the crash message aborts the *)
(* steps that remain: once the write has failed, the alert of that crash   *)
(* is not dispatched.                                                      *)
(***************************************************************************)
C16_CrashWriteFailureAborts ==
  [][crashWriteErr = "err" => ~DispatchStep]_vars

(***************************************************************************)
(* C16, amended: a failure of the write of the crash message aborts        *)
(* nothing and is not fatal.  logAppCrash gives outputLog no callback, so  *)
(* the outcome of the write is discarded: the callback of the write        *)
(* changes nothing else, whether it has an error or not; the supervisor    *)
(* ends uncaught only by a send error; after a failed write the next step  *)
(* of the pipeline is possible as before, and so is every later one.       *)
(***************************************************************************)
C16_CrashWriteFailureIgnored ==
  /\ [][CrashWriteStep =>
          UNCHANGED <<configVars, numRestarts, childVars, childAppStderrBuffer,
                      now, sigterm, phase, crashLocals, sendVars, sendText,
                      quitWriteErr, consoleLog, exitVars, thrownErr, initErr,
                      initLocals, counters>>]_vars
  /\ [](uncaught => thrownErr # <<>>)
  /\ []((crashWriteErr = "err" /\ Running) =>
          \/ phase = "checkMaxRestarts" /\ ENABLED CheckMaxRestarts
          \/ phase = "notifyExternally" /\ ENABLED NotifyExternally)
  /\ [](Running =>
          /\ phase = "final" => ENABLED FinalCallback
          /\ phase = "sending" =>
               \A c \in InFlight : ENABLED SendCompletes(c, "ok"))

C16_Witness ==
  /\ crashWriteErr = "err"
  /\ phase = "notifyExternally"
  /\ restartAction = "restart"
  /\ Running

(***************************************************************************)
(* C17: this.childApp is null in every state in which no child is running: *)
(* before the first start, from the close of the child until the next      *)
(* spawn, and after a quit decision or a manual kill.                      *)
(***************************************************************************)
C17_NullWhenNoChild == liveChildren = {} => childApp = <<>>

(***************************************************************************)
(* C18: when the child that crashed wrote nothing to its stderr, the       *)
(* stderr snapshot in the alert of that crash is the empty string,         *)
(* whatever the children before it wrote.                                  *)
(***************************************************************************)
C18_NoStderrEmptySnapshot ==
  (phase \in {"sending", "final"} /\ ~stderrSinceSpawn) =>
    alert[1].childAppStderrBuffer = ""

(***************************************************************************)
(* A restart is pending: the decision of the crash is 'restart' and the    *)
(* pipeline has not reached the respawn yet.                               *)
(***************************************************************************)
RestartPending ==
  /\ Running
  /\ restartAction = "restart"
  /\ phase \in {"notifyExternally", "sending", "final"}

(***************************************************************************)
(* C19: a send that has not completed stalls the crash pipeline: as long   *)
(* as a channel's send is in flight neither the restart nor the terminate  *)
(* action of that crash is taken.  Conversely, a pending restart ends only *)
(* by the respawn of the child or by the end of the supervisor (a send     *)
(* error or killApp), and if the sends do not stay in flight for ever, no  *)
(* restart stays pending for ever.                                         *)
(***************************************************************************)
C19_HungChannelStalls ==
  /\ [](InFlight # {} =>
          /\ phase = "sending"
          /\ numSpawns = numExits
          /\ numRestarts = newNumRestarts - 1
          /\ liveChildren = {}
          /\ exitTimer = <<>>)
  /\ [][InFlight' # {} => ~ActionTaken]_vars
  /\ [][(RestartPending /\ ~RestartPending') =>
          \/ phase' = "idle" /\ ChildIsLive' /\ numRestarts' = newNumRestarts'
          \/ exitStatus' # <<>>]_vars
  /\ []<>(InFlight = {} \/ ~Running) => []<>~RestartPending

C19_Witness ==
  /\ phase = "idle"
  /\ ChildIsLive
  /\ Len(notifications) = 3
  /\ AllSendsOk
  /\ numRestarts = 2
  /\ numSpawns = 3

\* The entries of the log that report a crash.
IsCrashEntry(e) == e.message = "crashed"

(***************************************************************************)
(* C20: the crash pipeline runs once for each exit of a spawned child, and *)
(* a crash pipeline starts only when none is under way: every pipeline     *)
(* before it has executed its restart action, and the child whose exit     *)
(* starts it is the one that restart spawned.                              *)
(***************************************************************************)
C20_OnePipelineAtATime ==
  /\ [][numExits' # numExits =>
          /\ phase = "idle"
          /\ phase' = "checkMaxRestarts"
          /\ numExits' = numExits + 1
          /\ numSpawns = numExits + 1
          /\ numRestarts = numExits
          /\ InFlight = {}]_vars
  /\ [](Len(SelectSeq(consoleLog, IsCrashEntry)) = numExits)
  /\ [](numExits <= numSpawns /\ numSpawns <= numExits + 1)
  /\ [](phase \in PipelinePhases =>
          /\ numSpawns = numExits
          /\ newNumRestarts = numExits
          /\ ~ChildIsLive)
  /\ [][(phase \in PipelinePhases) => newNumRestarts' = newNumRestarts]_vars

C20_Witness ==
  /\ phase = "checkMaxRestarts"
  /\ numExits = 3
  /\ numSpawns = 3
  /\ numRestarts = 2
  /\ Len(SelectSeq(consoleLog, IsCrashEntry)) = 3

(***************************************************************************)
(* C21, as stated: with threshold 0, after every storeChildStderr the      *)
(* buffer holds only the last write.                                       *)
(***************************************************************************)
C21_LastWriteOnly ==
  numStderr > 0 => Len(childAppStderrBuffer) = 1

(***************************************************************************)
(* C21, amended: with threshold 0, after every storeChildStderr at time    *)
(* now the buffer holds, in arrival order, the entries recorded at the     *)
(* time now, the new entry last: every entry recorded at an earlier time   *)
(* has been evicted, an entry recorded at the same time as the new one is  *)
(* kept.                                                                   *)
(***************************************************************************)
C21_ZeroThresholdKeepsSameTime ==
  /\ [][StoreStep =>
          LET sameTime(e) == e.time = now' IN
            childAppStderrBuffer' =
              Append(SelectSeq(childAppStderrBuffer, sameTime),
                     [time |-> now', message |-> Chunk(numStderr')])]_vars
  /\ [](\A i \in 1..Len(childAppStderrBuffer) :
          childAppStderrBuffer[i].time = now)
  /\ [](numStderr > 0 =>
          /\ childAppStderrBuffer # <<>>
          /\ childAppStderrBuffer[Len(childAppStderrBuffer)].message
               = Chunk(numStderr))

\* An entry was evicted by the second store, and the third store, at the
\* time of the second, kept the second's entry.
C21_Witness ==
  /\ numStderr = 3
  /\ now > 0
  /\ getChildStderr(childAppStderrBuffer) = "b\nc"

(***************************************************************************)
(* C22: no crash alert is rendered with the default message of send: the   *)
(* notificationType of every dispatch of the crash pipeline has its own    *)
(* case in the switch of NotificationBase.send.                            *)
(***************************************************************************)
C22_NoDefaultMessage ==
  \A i \in 1..Len(sendText) :
    /\ sendText[i].message # "Something unexpected happened"
    /\ alert[1].notificationType
         \in {"app-no-restarts", "app-restart-limit", "app-crash"}

(***************************************************************************)
(* C23, as stated: once a crash has resolved to 'quit', the exit status of *)
(* the supervisor is non-zero, whatever happens afterwards.                *)
(***************************************************************************)
C23_QuitNeverExitsZero ==
  (DecisionMade /\ restartAction = "quit" /\ exitStatus # <<>>) =>
    exitStatus # <<0>>

(***************************************************************************)
(* C23, amended: killApp ends the supervisor with status 0 whenever it is  *)
(* called, also after a crash has resolved to 'quit' and during the grace  *)
(* delay before process.exit(1), where it can still be called (childApp is *)
(* null then and no child is signalled); status 0 is produced by killApp   *)
(* only, and after a 'quit' decision the exit status is 1 unless killApp   *)
(* ran first.                                                              *)
(***************************************************************************)
C23_ManualKillAlwaysZero ==
  /\ [][KillStep =>
          /\ exitStatus' = <<0>>
          /\ (childApp = <<>> => sigterm' = sigterm)]_vars
  /\ [][(exitStatus = <<>> /\ exitStatus' = <<0>>) => KillStep]_vars
  /\ []((phase = "quitting" /\ Running) => (childApp = <<>> /\ ENABLED KillApp))
  /\ []((DecisionMade /\ restartAction = "quit" /\ exitStatus # <<>>) =>
          exitStatus = IF SaidGoodbye THEN <<0>> ELSE <<1>>)

\* killApp was called during the grace delay.
C23_Witness ==
  /\ phase = "quitting"
  /\ restartAction = "quit"
  /\ exitTimer # <<>>
  /\ now < exitTimer[1]
  /\ childApp = <<>>
  /\ SaidGoodbye
  /\ exitStatus = <<0>>

====
